---- MODULE Spec2Model ----
(***************************************************************************)
(* Game view controller of the networked chess client                      *)
(* (src/chess_app/static/js/game.js) and its lobby page                    *)
(* (src/unnamed/part_000).                                                 *)
(*                                                                         *)
(* A page is one event loop: every handler (a square click or a server   *)
(* push) runs to completion, so each handler is one action.  The rules     *)
(* engine (the Chess object of the chess.js library) and the DOM are the   *)
(* collaborators of the script; they are modelled by what the script       *)
(* observes of them.                                                       *)
(*                                                                         *)
(* Scope of the rules engine model: piece movement, captures, promotion to *)
(* a queen, check, checkmate, stalemate, insufficient material, standard   *)
(* algebraic notation, and the loss of the move history on load().         *)
(* Castling, en passant, the fifty-move rule and threefold repetition need *)
(* more plies since the last load than MaxHistory allows from the          *)
(* positions used here, so they are not modelled.                          *)
(***************************************************************************)
EXTENDS Integers, Sequences, FiniteSets, TLC

VARIABLES
    game,            \* game.js:3   the Chess instance: board, turn, history
    playerColor,     \* game.js:4
    selectedSquare,  \* game.js:5
    boardElement,    \* game.js:6   children of #board, in append order
    gameStatus,      \* textContent of #gameStatus
    whiteStatus,     \* textContent of #whiteStatus
    blackStatus,     \* textContent of #blackStatus
    movesList,       \* children of #movesList (textContent of each item)
    emitted,         \* events the last handler run sent on the socket
    last,            \* the handler that ran last and, for a click, its branch
    gameLink,        \* lobby: the URL shown in #gameLink, Null while hidden
    timers,          \* lobby: URLs of the navigations setTimeout has scheduled
    location,        \* window.location.href
    alertText        \* lobby: the text of the last alert(), Null before any

\* What the lobby page adds to the state.
lobbyVars == <<gameLink, timers, location, alertText>>

\* What the game page keeps.
gameVars == <<game, playerColor, selectedSquare, boardElement, gameStatus,
              whiteStatus, blackStatus, movesList>>

vars == <<game, playerColor, selectedSquare, boardElement, gameStatus,
          whiteStatus, blackStatus, movesList, emitted, last,
          gameLink, timers, location, alertText>>

Null == "null"

\* Longest move history kept since the last load (bounds the game length).
MaxHistory == 2

\* Most navigations the lobby has scheduled at one time.
MaxTimers == 2

(***************************************************************************)
(* Squares                                                                 *)
(***************************************************************************)
Files == <<"a", "b", "c", "d", "e", "f", "g", "h">>

Ranks == <<1, 2, 3, 4, 5, 6, 7, 8>>

FileNumbers == [file \in {Files[i] : i \in 1..8} |-> CHOOSE i \in 1..8 : Files[i] = file]

\* file.charCodeAt(0) - 96
FileNumber(file) == FileNumbers[file]

\* The rules engine numbers the squares a1, b1, ..., h8 as 1..64.
Cells == 1..64

CellAt(f, r) == (r - 1) * 8 + f

FileOf(c) == ((c - 1) % 8) + 1

RankOf(c) == ((c - 1) \div 8) + 1

SquareNames == [c \in Cells |-> Files[FileOf(c)] \o ToString(RankOf(c))]

\* `${file}${rank}`
SquareName(file, rank) == SquareNames[CellAt(FileNumber(file), rank)]

Squares == {SquareNames[c] : c \in Cells}

Cell == [s \in Squares |-> CHOOSE c \in Cells : SquareNames[c] = s]

Reverse(s) == [i \in 1..Len(s) |-> s[Len(s) + 1 - i]]

Abs(n) == IF n < 0 THEN -n ELSE n

Sign(n) == IF n < 0 THEN -1 ELSE IF n > 0 THEN 1 ELSE 0

Max(a, b) == IF a > b THEN a ELSE b

(***************************************************************************)
(* Rules engine: positions                                                 *)
(***************************************************************************)
Piece(color, type) == [color |-> color, type |-> type]

\* What game.get() gives for an empty square.
NoPiece == [color |-> Null, type |-> Null]

BackRank == <<"r", "n", "b", "q", "k", "b", "n", "r">>

StartBoard ==
    [c \in Cells |->
        CASE RankOf(c) = 1 -> Piece("w", BackRank[FileOf(c)])
          [] RankOf(c) = 2 -> Piece("w", "p")
          [] RankOf(c) = 7 -> Piece("b", "p")
          [] RankOf(c) = 8 -> Piece("b", BackRank[FileOf(c)])
          [] OTHER -> NoPiece]

\* A board holding the listed pieces: <<square, color, type>> each.
Place(pieces) ==
    [c \in Cells |->
        IF \E i \in 1..Len(pieces) : pieces[i][1] = SquareNames[c]
        THEN LET i == CHOOSE j \in 1..Len(pieces) : pieces[j][1] = SquareNames[c]
             IN  Piece(pieces[i][2], pieces[i][3])
        ELSE NoPiece]

\* A position string: piece placement and side to move.
PositionString(board, turn) == [board |-> board, turn |-> turn]

\* new Chess()
NewChess == [board |-> StartBoard, turn |-> "w", history |-> <<>>]

\* game.load(fen): the position is replaced and the history is forgotten
Load(fen) == [board |-> fen.board, turn |-> fen.turn, history |-> <<>>]

\* game.fen()
Fen(g) == PositionString(g.board, g.turn)

\* game.turn()
Turn(g) == g.turn

\* game.get(square)
Get(g, square) == g.board[Cell[square]]

Other(color) == IF color = "w" THEN "b" ELSE "w"

(***************************************************************************)
(* Rules engine: moves (on cells)                                          *)
(***************************************************************************)
\* Every square strictly between the two squares of a line is empty.
PathClear(b, from, to) ==
    LET df == FileOf(to) - FileOf(from)
        dr == RankOf(to) - RankOf(from)
        n  == Max(Abs(df), Abs(dr))
    IN  \A k \in 1..(n - 1) :
            b[CellAt(FileOf(from) + k * Sign(df), RankOf(from) + k * Sign(dr))] = NoPiece

PawnDir(color) == IF color = "w" THEN 1 ELSE -1

PawnStart(color) == IF color = "w" THEN 2 ELSE 7

PromotionRank(color) == IF color = "w" THEN 8 ELSE 1

\* The piece on from attacks the square to.
Attacks(b, from, to) ==
    LET p  == b[from]
        df == FileOf(to) - FileOf(from)
        dr == RankOf(to) - RankOf(from)
    IN  /\ from # to
        /\ CASE p.type = "p" -> Abs(df) = 1 /\ dr = PawnDir(p.color)
             [] p.type = "n" -> {Abs(df), Abs(dr)} = {1, 2}
             [] p.type = "k" -> Abs(df) <= 1 /\ Abs(dr) <= 1
             [] p.type = "r" -> (df = 0 \/ dr = 0) /\ PathClear(b, from, to)
             [] p.type = "b" -> Abs(df) = Abs(dr) /\ PathClear(b, from, to)
             [] p.type = "q" -> /\ (df = 0 \/ dr = 0 \/ Abs(df) = Abs(dr))
                                /\ PathClear(b, from, to)

Attacked(b, c, by) ==
    \E s \in Cells : b[s].color = by /\ Attacks(b, s, c)

KingCell(b, color) == CHOOSE c \in Cells : b[c] = Piece(color, "k")

InCheckOf(b, color) == Attacked(b, KingCell(b, color), Other(color))

PawnMove(b, from, to) ==
    LET p  == b[from]
        df == FileOf(to) - FileOf(from)
        dr == RankOf(to) - RankOf(from)
    IN  \/ df = 0 /\ dr = PawnDir(p.color) /\ b[to] = NoPiece
        \/ /\ df = 0 /\ dr = 2 * PawnDir(p.color)
           /\ RankOf(from) = PawnStart(p.color)
           /\ b[to] = NoPiece /\ PathClear(b, from, to)
        \/ Abs(df) = 1 /\ dr = PawnDir(p.color) /\ b[to] # NoPiece

PseudoLegal(b, from, to) ==
    /\ b[from] # NoPiece
    /\ from # to
    /\ b[to].color # b[from].color
    /\ IF b[from].type = "p" THEN PawnMove(b, from, to) ELSE Attacks(b, from, to)

\* promotion: 'q'
Promotes(b, from, to) ==
    b[from].type = "p" /\ RankOf(to) = PromotionRank(b[from].color)

ApplyMove(b, from, to) ==
    [b EXCEPT ![from] = NoPiece,
              ![to] = IF Promotes(b, from, to)
                      THEN Piece(b[from].color, "q") ELSE b[from]]

Legal(g, from, to) ==
    /\ g.board[from].color = g.turn
    /\ PseudoLegal(g.board, from, to)
    /\ ~InCheckOf(ApplyMove(g.board, from, to), g.turn)

HasLegalMove(g) ==
    \E from \in Cells :
        /\ g.board[from].color = g.turn
        /\ \E to \in Cells : Legal(g, from, to)

IsLightCell(c) == (FileOf(c) + RankOf(c)) % 2 = 1

PieceLetter(type) ==
    CASE type = "n" -> "N" [] type = "b" -> "B" [] type = "r" -> "R"
      [] type = "q" -> "Q" [] type = "k" -> "K" [] OTHER -> ""

\* The file, the rank or both of the origin, when another piece of the same
\* kind could also move to the destination.
Disambiguator(g, from, to) ==
    LET same == {c \in Cells \ {from} : g.board[c] = g.board[from] /\ Legal(g, c, to)}
    IN  IF same = {} THEN ""
        ELSE IF \A c \in same : FileOf(c) # FileOf(from)
             THEN Files[FileOf(from)]
        ELSE IF \A c \in same : RankOf(c) # RankOf(from)
             THEN ToString(RankOf(from))
        ELSE SquareNames[from]

(***************************************************************************)
(* Rules engine: what the script calls (on square names)                   *)
(***************************************************************************)
\* game.moves({ square, verbose: true }): the destinations
Moves(g, square) ==
    {SquareNames[to] : to \in {c \in Cells : Legal(g, Cell[square], c)}}

\* game.inCheck()
InCheck(g) == InCheckOf(g.board, g.turn)

\* game.isCheckmate()
IsCheckmate(g) == InCheck(g) /\ ~HasLegalMove(g)

\* game.isStalemate()
IsStalemate(g) == ~InCheck(g) /\ ~HasLegalMove(g)

IsInsufficientMaterial(g) ==
    LET others == {c \in Cells : g.board[c].type \notin {Null, "k"}}
    IN  \/ others = {}
        \/ /\ Cardinality(others) = 1
           /\ \A c \in others : g.board[c].type \in {"b", "n"}
        \/ /\ \A c \in others : g.board[c].type = "b"
           /\ \A c, d \in others : IsLightCell(c) = IsLightCell(d)

\* game.isDraw(): true in stalemate too
IsDraw(g) == IsStalemate(g) \/ IsInsufficientMaterial(g)

\* game.isGameOver(): checkmate, stalemate or draw, which is to say no legal
\* move or insufficient material
IsGameOver(g) == IsInsufficientMaterial(g) \/ ~HasLegalMove(g)

\* The position after the move, without its history.
AfterMove(g, from, to) ==
    [board |-> ApplyMove(g.board, Cell[from], Cell[to]), turn |-> Other(g.turn),
     history |-> <<>>]

\* Standard algebraic notation of a legal move.
San(g, from, to) ==
    LET p       == Get(g, from)
        capture == Get(g, to) # NoPiece
        next    == AfterMove(g, from, to)
    IN  (IF p.type = "p"
         THEN (IF capture THEN Files[FileOf(Cell[from])] ELSE "")
         ELSE PieceLetter(p.type) \o Disambiguator(g, Cell[from], Cell[to]))
        \o (IF capture THEN "x" ELSE "")
        \o to
        \o (IF Promotes(g.board, Cell[from], Cell[to]) THEN "=Q" ELSE "")
        \o (IF IsCheckmate(next) THEN "#" ELSE IF InCheck(next) THEN "+" ELSE "")

\* What game.move() gives for an illegal move.
NoMove == [from |-> Null, to |-> Null, san |-> Null]

\* The move object game.move() returns.
MoveObject(g, from, to) ==
    IF Legal(g, Cell[from], Cell[to])
    THEN [from |-> from, to |-> to, san |-> San(g, from, to)]
    ELSE NoMove

\* The game after the library's game.move() has returned the move object.
OriginalMove(g, move) ==
    IF move # NoMove
    THEN [board |-> ApplyMove(g.board, Cell[move.from], Cell[move.to]),
          turn |-> Other(g.turn),
          history |-> Append(g.history, move)]
    ELSE g

\* game.history()
History(g) == [i \in 1..Len(g.history) |-> g.history[i].san]

(***************************************************************************)
(* The page: the script's variables and the DOM it writes, as one record   *)
(* that the functions of the script transform.                             *)
(***************************************************************************)
\* game.js:2   the game identifier embedded in the page
gameId == "abc123"

\* window.location.origin
Origin == "http://host"

\* The address of the game view of a game, as the lobby builds it.
GameUrl(id) == Origin \o "/game/" \o id

\* The address of the lobby.
LobbyUrl == Origin \o "/"

\* The texts updateGameStatus writes (given here in English).
WaitingText == "waiting for opponent"

WhiteToMoveText == "white to move"

BlackToMoveText == "black to move"

BlackWinsText == "checkmate, black wins"

WhiteWinsText == "checkmate, white wins"

DrawText == "draw"

StalemateText == "stalemate"

DisconnectedText == "opponent disconnected"

\* The texts updatePlayerStatus writes.
YouText == "you"

MovingText == "to move"

WaitText == "waiting"

\* playerColor[0]
ColorLetter(color) == IF color = "white" THEN "w" ELSE "b"

\* The page as the handlers find it: nothing emitted yet in this run.
Page ==
    [game |-> game, playerColor |-> playerColor,
     selectedSquare |-> selectedSquare, boardElement |-> boardElement,
     gameStatus |-> gameStatus, whiteStatus |-> whiteStatus,
     blackStatus |-> blackStatus, movesList |-> movesList,
     emitted |-> <<>>, branch |-> "none"]

\* socket.emit(event, payload)
Emit(st, event, payload) ==
    [st EXCEPT !.emitted = Append(@, [event |-> event, payload |-> payload])]

\* querySelector(`[data-square="..."]`).classList.add(class)
AddClass(st, square, class) ==
    [st EXCEPT !.boardElement =
        [i \in 1..Len(@) |->
            IF @[i].square = square
            THEN [@[i] EXCEPT !.marks = @ \cup {class}]
            ELSE @[i]]]

HighlightLastMove(st) ==
    LET history == st.game.history
    IN  IF Len(history) > 0
        THEN LET lastMove == history[Len(history)]
             IN  AddClass(AddClass(st, lastMove.from, "last-move"),
                          lastMove.to, "last-move")
        ELSE st

HighlightCheck(st) ==
    IF InCheck(st.game)
    THEN LET king == Piece(Turn(st.game), "k")
         IN  [st EXCEPT !.boardElement =
                [i \in 1..Len(@) |->
                    IF @[i].piece = king
                    THEN [@[i] EXCEPT !.marks = @ \cup {"check"}]
                    ELSE @[i]]]
    ELSE st

FilesDescending == <<"h", "g", "f", "e", "d", "c", "b", "a">>

\* game.js:50-63   the squares in the order renderBoard appends them, each
\* with its data-square and whether its class is light (or dark)
BoardLayout(isFlipped) ==
    LET ranks == IF isFlipped THEN Reverse(Ranks) ELSE Ranks
        files == IF isFlipped THEN Reverse(FilesDescending) ELSE Files
    IN  [i \in 1..64 |->
            LET rank == ranks[((i - 1) \div 8) + 1]
                file == files[((i - 1) % 8) + 1]
            IN  [square |-> SquareName(file, rank),
                 light  |-> (rank + FileNumber(file)) % 2 = 0]]

LayoutWhenFlipped == BoardLayout(TRUE)

LayoutWhenNotFlipped == BoardLayout(FALSE)

\* The element renderBoard builds for one square: its data-square, its light
\* or dark class, the classes added to mark it, and the color and type its
\* piece child is drawn from (NoPiece: no child).
SquareElement(st, place) ==
    [square |-> place.square,
     light  |-> place.light,
     marks  |-> IF st.selectedSquare = place.square THEN {"selected"} ELSE {},
     piece  |-> Get(st.game, place.square)]

RenderBoard(st) ==
    LET isFlipped == st.playerColor = "black"
        layout == IF isFlipped THEN LayoutWhenFlipped ELSE LayoutWhenNotFlipped
        drawn == [st EXCEPT !.boardElement =
                    [i \in 1..64 |-> SquareElement(st, layout[i])]]
    IN  HighlightCheck(HighlightLastMove(drawn))

HighlightPossibleMoves(st, square) ==
    LET moves == Moves(st.game, square)
    IN  [st EXCEPT !.boardElement =
            [i \in 1..Len(@) |->
                IF @[i].square \in moves
                THEN [@[i] EXCEPT !.marks = @ \cup {"possible-move"}]
                ELSE @[i]]]

UpdateMovesList(st) ==
    LET history == History(st.game)
    IN  [st EXCEPT !.movesList =
            [n \in 1..((Len(history) + 1) \div 2) |->
                LET whiteMove == history[2 * n - 1]
                    blackMove == IF 2 * n <= Len(history) THEN history[2 * n] ELSE ""
                IN  ToString(n) \o ". " \o whiteMove \o " " \o blackMove]]

UpdateGameStatus(st, status) ==
    CASE status = "waiting" -> [st EXCEPT !.gameStatus = WaitingText]
      [] status = "active" ->
            [st EXCEPT !.gameStatus =
                IF Turn(st.game) = "w" THEN WhiteToMoveText ELSE BlackToMoveText]
      [] status = "checkmate" ->
            [st EXCEPT !.gameStatus =
                IF Turn(st.game) = "w" THEN BlackWinsText ELSE WhiteWinsText]
      [] status = "draw" -> [st EXCEPT !.gameStatus = DrawText]
      [] status = "stalemate" -> [st EXCEPT !.gameStatus = StalemateText]
      [] status = "disconnected" -> [st EXCEPT !.gameStatus = DisconnectedText]
      [] OTHER -> st

CheckGameStatus(st) ==
    IF IsCheckmate(st.game) THEN UpdateGameStatus(st, "checkmate")
    ELSE IF IsDraw(st.game) THEN UpdateGameStatus(st, "draw")
    ELSE IF IsStalemate(st.game) THEN UpdateGameStatus(st, "stalemate")
    ELSE st

UpdatePlayerStatus(st) ==
    IF st.playerColor = Null THEN st
    ELSE IF st.playerColor = "white"
    THEN [st EXCEPT !.whiteStatus = YouText,
                    !.blackStatus = IF Turn(st.game) = "b" THEN MovingText ELSE WaitText]
    ELSE [st EXCEPT !.blackStatus = YouText,
                    !.whiteStatus = IF Turn(st.game) = "w" THEN MovingText ELSE WaitText]

\* game.move as patched at the end of the script, once the library's move
\* has returned the move object: the status refresh when the move was made.
GameMove(st, move) ==
    IF move # NoMove
    THEN UpdatePlayerStatus(
            UpdateGameStatus([st EXCEPT !.game = OriginalMove(@, move)], "active"))
    ELSE st

Took(st, branch) == [st EXCEPT !.branch = branch]

\* A slip in the accepted branch: the selection is not cleared.
AcceptedMoveKeepsSelection(st, move) ==
    LET sent     == Emit(st, "make_move",
                         [game_id |-> gameId, move |-> move.san, fen |-> Fen(st.game)])
        rendered == RenderBoard(sent)
        listed   == UpdateMovesList(rendered)
        checked  == CheckGameStatus(listed)
        active   == UpdateGameStatus(checked, "active")
    IN  Took(UpdatePlayerStatus(active), "moved")

\* The branch of handleSquareClick taken when the rules engine accepts the move.
AcceptedMove(st, move) ==
    LET sent     == Emit(st, "make_move",
                         [game_id |-> gameId, move |-> move.san, fen |-> Fen(st.game)])
        cleared  == [sent EXCEPT !.selectedSquare = Null]
        rendered == RenderBoard(cleared)
        listed   == UpdateMovesList(rendered)
        checked  == CheckGameStatus(listed)
        active   == UpdateGameStatus(checked, "active")
    IN  Took(UpdatePlayerStatus(active), "moved")

\* A slip in the rejected branch: the selection is left on the old square.
RejectedMoveKeepsSelection(st, square) ==
    LET rendered == RenderBoard(st)
    IN  Took(IF st.selectedSquare # Null
             THEN HighlightPossibleMoves(rendered, st.selectedSquare)
             ELSE rendered,
             "rejected")

\* The branch taken when the rules engine rejects the move.
RejectedMove(st, square) ==
    LET piece    == Get(st.game, square)
        friendly == piece # NoPiece /\ piece.color = ColorLetter(st.playerColor)
        chosen   == [st EXCEPT !.selectedSquare = IF friendly THEN square ELSE Null]
        rendered == RenderBoard(chosen)
    IN  Took(IF chosen.selectedSquare # Null
             THEN HighlightPossibleMoves(rendered, chosen.selectedSquare)
             ELSE rendered,
             "rejected")

\* handleSquareClick past its early returns (game.js:91-131)
HeededClick(st, square) ==
    LET piece == Get(st.game, square)
    IN  IF st.selectedSquare # Null
        THEN IF st.selectedSquare = square
             THEN Took(RenderBoard([st EXCEPT !.selectedSquare = Null]), "deselected")
             ELSE LET move == MoveObject(st.game, st.selectedSquare, square)
                  IN  IF move # NoMove
                      THEN AcceptedMove(GameMove(st, move), move)
                      ELSE RejectedMove(st, square)
        ELSE IF piece # NoPiece /\ piece.color = ColorLetter(st.playerColor)
             THEN Took(HighlightPossibleMoves(
                           RenderBoard([st EXCEPT !.selectedSquare = square]),
                           square),
                       "selected")
             ELSE Took(st, "nothing")

\* A slip in the click handler: the check for an assigned color is missing.
HandleSquareClickWithoutColorCheck(st, square) ==
    IF Turn(st.game) # ColorLetter(st.playerColor) THEN Took(st, "ignored")
    ELSE IF IsGameOver(st.game) THEN Took(st, "ignored")
    ELSE HeededClick(st, square)

\* A slip in the click handler: the check for a finished game is missing.
HandleSquareClickWithoutGameOverCheck(st, square) ==
    IF st.playerColor = Null THEN Took(st, "ignored")
    ELSE IF Turn(st.game) # ColorLetter(st.playerColor) THEN Took(st, "ignored")
    ELSE HeededClick(st, square)

\* A slip in the click handler: the check for the side to move is missing.
HandleSquareClickWithoutTurnCheck(st, square) ==
    IF st.playerColor = Null THEN Took(st, "ignored")
    ELSE IF IsGameOver(st.game) THEN Took(st, "ignored")
    ELSE HeededClick(st, square)

HandleSquareClick(st, square) ==
    IF st.playerColor = Null THEN Took(st, "ignored")
    ELSE IF Turn(st.game) # ColorLetter(st.playerColor) THEN Took(st, "ignored")
    ELSE IF IsGameOver(st.game) THEN Took(st, "ignored")
    ELSE HeededClick(st, square)

\* socket.on('game_joined')
OnGameJoined(st, data) ==
    UpdatePlayerStatus([st EXCEPT !.playerColor = data.color])

\* A slip in the game_info handler: the color is read only next to a position.
OnGameInfoColorNeedsFen(st, data) ==
    LET loaded  == IF "fen" \in DOMAIN data
                   THEN [st EXCEPT !.game = Load(data.fen)] ELSE st
        colored == IF "fen" \in DOMAIN data /\ "color" \in DOMAIN data
                   THEN [loaded EXCEPT !.playerColor = data.color] ELSE loaded
        status  == IF "status" \in DOMAIN data
                   THEN UpdateGameStatus(colored, data.status) ELSE colored
    IN  UpdatePlayerStatus(RenderBoard(status))

\* socket.on('game_info'): every field of data is optional
OnGameInfo(st, data) ==
    LET loaded  == IF "fen" \in DOMAIN data
                   THEN [st EXCEPT !.game = Load(data.fen)] ELSE st
        colored == IF "color" \in DOMAIN data
                   THEN [loaded EXCEPT !.playerColor = data.color] ELSE loaded
        status  == IF "status" \in DOMAIN data
                   THEN UpdateGameStatus(colored, data.status) ELSE colored
    IN  UpdatePlayerStatus(RenderBoard(status))

\* A slip in the move_made handler: the board is not rendered again.
OnMoveMadeWithoutRender(st, data) ==
    CheckGameStatus(UpdateMovesList([st EXCEPT !.game = Load(data.fen)]))

\* socket.on('move_made')
OnMoveMade(st, data) ==
    CheckGameStatus(UpdateMovesList(RenderBoard([st EXCEPT !.game = Load(data.fen)])))

\* socket.on('player_joined')
OnPlayerJoined(st) == UpdatePlayerStatus(UpdateGameStatus(st, "active"))

\* A slip in the player_disconnected handler: it renders the board again.
OnPlayerDisconnectedRenders(st) == RenderBoard(UpdateGameStatus(st, "disconnected"))

\* socket.on('player_disconnected')
OnPlayerDisconnected(st) == UpdateGameStatus(st, "disconnected")

\* resignBtn click: confirmed is what the confirm() prompt returned
OnResign(st, confirmed) ==
    IF confirmed THEN UpdateGameStatus(st, "resigned") ELSE st

(***************************************************************************)
(* What the user and the server can send                                   *)
(***************************************************************************)
Colors == {"white", "black"}

\* The position after 1.e4
AfterE4 ==
    PositionString([StartBoard EXCEPT ![Cell["e2"]] = NoPiece,
                                      ![Cell["e4"]] = Piece("w", "p")], "b")

\* White to move: Qh1, Qg7 and Qg8 mate, Qg6 stalemates.
QueenEnding ==
    PositionString(Place(<< <<"h8", "b", "k">>, <<"f7", "w", "k">>, <<"g1", "w", "q">> >>), "w")

\* Black to move and stalemated: the queen ending after Qg6.
QueenStalemate ==
    PositionString(Place(<< <<"h8", "b", "k">>, <<"f7", "w", "k">>, <<"g6", "w", "q">> >>), "b")

\* The position strings the server pushes with move_made.
PushFens == {AfterE4, QueenEnding, QueenStalemate}

\* The position strings the server sends with game_info.
InfoFens == {QueenEnding}

\* The status values the server sends with game_info.
PushStatuses == {"waiting"}

\* The squares the user clicks.
ClickSquares == {"e2", "e4", "e5", "e7", "g1", "g6", "h1"}

Optional(field, values) == {<<>>} \cup {field :> v : v \in values}

\* The payloads of game_info: { fen?, color?, status? }
GameInfoData ==
    {f @@ c @@ t : f \in Optional("fen", InfoFens),
                   c \in Optional("color", Colors),
                   t \in Optional("status", PushStatuses)}

(***************************************************************************)
(* The state machine                                                       *)
(***************************************************************************)
\* The page a handler leaves behind becomes the state.
Commit(st, op) ==
    /\ game' = st.game
    /\ playerColor' = st.playerColor
    /\ selectedSquare' = st.selectedSquare
    /\ gameStatus' = st.gameStatus
    /\ whiteStatus' = st.whiteStatus
    /\ blackStatus' = st.blackStatus
    /\ movesList' = st.movesList
    /\ emitted' = st.emitted
    /\ boardElement' = st.boardElement
    /\ last' = [op |-> op, branch |-> st.branch]
    /\ UNCHANGED lobbyVars

\* game.js:1-9   the script has run: nothing rendered, join_game sent
Init ==
    /\ game = NewChess
    /\ playerColor = Null
    /\ selectedSquare = Null
    /\ boardElement = <<>>
    /\ gameStatus = ""
    /\ whiteStatus = ""
    /\ blackStatus = ""
    /\ movesList = <<>>
    /\ emitted = <<[event |-> "join_game", payload |-> [game_id |-> gameId]]>>
    /\ last = [op |-> "load", branch |-> "none"]
    /\ gameLink = Null
    /\ timers = <<>>
    /\ location = GameUrl(gameId)
    /\ alertText = Null

\* game.js:77   a square can be clicked once renderBoard has put it on the page
Click ==
    \E square \in ClickSquares :
        LET st == HandleSquareClick(Page, square)
        IN  /\ boardElement # <<>>
            /\ Len(st.game.history) <= MaxHistory
            /\ Commit(st, "click")

GameJoined ==
    \E color \in Colors : Commit(OnGameJoined(Page, [color |-> color]), "game_joined")

GameInfo ==
    \E data \in GameInfoData : Commit(OnGameInfo(Page, data), "game_info")

MoveMade ==
    \E fen \in PushFens : Commit(OnMoveMade(Page, [fen |-> fen]), "move_made")

PlayerJoined == Commit(OnPlayerJoined(Page), "player_joined")

PlayerDisconnected == Commit(OnPlayerDisconnected(Page), "player_disconnected")

Resign ==
    \E confirmed \in BOOLEAN : Commit(OnResign(Page, confirmed), "resign")

Next ==
    \/ Click
    \/ GameJoined
    \/ GameInfo
    \/ MoveMade
    \/ PlayerJoined
    \/ PlayerDisconnected
    \/ Resign

Spec == Init /\ [][Next]_vars

(***************************************************************************)
(* The lobby page                                                          *)
(***************************************************************************)
\* The game identifiers the server hands out and the user types.
GameIds == {"g1", "g2"}

\* What the user has typed into #gameIdInput, character by character.
JoinInputs == {<<>>, <<" ">>, <<"g", "1">>, <<" ", "g", "2", " ">>}

\* The messages of the server's error events.
ErrorMessages == {"Game not found", "Game is full"}

\* The prompt of the join button for an empty identifier.
EnterIdText == "Enter the game ID"

RECURSIVE TrimStart(_)
TrimStart(chars) ==
    IF chars # <<>> /\ Head(chars) = " " THEN TrimStart(Tail(chars)) ELSE chars

\* String.prototype.trim
Trim(chars) == Reverse(TrimStart(Reverse(TrimStart(chars))))

RECURSIVE Text(_)
Text(chars) == IF chars = <<>> THEN "" ELSE Head(chars) \o Text(Tail(chars))

\* The lobby script runs while the lobby is the page shown.
InLobby == location = LobbyUrl

LobbyRan(op) == last' = [op |-> op, branch |-> "none"]

\* part_000:1   the lobby script has run: nothing shown, nothing sent
LobbyInit ==
    /\ game = NewChess
    /\ playerColor = Null
    /\ selectedSquare = Null
    /\ boardElement = <<>>
    /\ gameStatus = ""
    /\ whiteStatus = ""
    /\ blackStatus = ""
    /\ movesList = <<>>
    /\ emitted = <<>>
    /\ last = [op |-> "load", branch |-> "none"]
    /\ gameLink = Null
    /\ timers = <<>>
    /\ location = LobbyUrl
    /\ alertText = Null

\* createGameBtn click
CreateGame ==
    /\ InLobby
    /\ emitted' = <<[event |-> "create_game", payload |-> <<>>]>>
    /\ LobbyRan("create_game")
    /\ UNCHANGED <<gameVars, lobbyVars>>

\* joinGameBtn click
JoinGame ==
    \E input \in JoinInputs :
        LET id == Text(Trim(input))
        IN  /\ InLobby
            /\ IF id # ""
               THEN location' = GameUrl(id) /\ UNCHANGED alertText
               ELSE alertText' = EnterIdText /\ UNCHANGED location
            /\ emitted' = <<>>
            /\ LobbyRan("join_game")
            /\ UNCHANGED <<gameVars, gameLink, timers>>

\* socket.on('game_created')
GameCreated ==
    \E id \in GameIds :
        LET url == GameUrl(id)
        IN  /\ InLobby
            /\ Len(timers) < MaxTimers
            /\ gameLink' = url
            /\ timers' = Append(timers, url)
            /\ emitted' = <<>>
            /\ LobbyRan("game_created")
            /\ UNCHANGED <<gameVars, location, alertText>>

\* The callback of the oldest setTimeout: all delays are 2000 ms, so the
\* callbacks run in the order they were scheduled.
NavigationTimer ==
    /\ InLobby
    /\ timers # <<>>
    /\ location' = Head(timers)
    /\ timers' = Tail(timers)
    /\ emitted' = <<>>
    /\ LobbyRan("timer")
    /\ UNCHANGED <<gameVars, gameLink, alertText>>

\* socket.on('error')
ErrorEvent ==
    \E message \in ErrorMessages :
        /\ InLobby
        /\ alertText' = message
        /\ emitted' = <<>>
        /\ LobbyRan("error")
        /\ UNCHANGED <<gameVars, gameLink, timers, location>>

LobbyNext ==
    \/ CreateGame
    \/ JoinGame
    \/ GameCreated
    \/ NavigationTimer
    \/ ErrorEvent

LobbySpec == LobbyInit /\ [][LobbyNext]_vars

(***************************************************************************)
(* Vocabulary of the properties                                            *)
(***************************************************************************)
\* The step is the click handler run on the square.
ClickOn(square) == Commit(HandleSquareClick(Page, square), "click")

\* The step is a run of the named handler.
Ran(op) == last'.op = op

\* The state is the one the click handler left when it took the branch.
AfterClick(branch) == last = [op |-> "click", branch |-> branch]

\* The local player is on turn.
OnTurn == playerColor # Null /\ Turn(game) = ColorLetter(playerColor)

\* A heeded click on the square asks the rules engine for a move from the
\* selection, and the engine accepts it.
YieldsAcceptedMove(square) ==
    /\ selectedSquare # Null
    /\ selectedSquare # square
    /\ OnTurn
    /\ Legal(game, Cell[selectedSquare], Cell[square])
    /\ ~IsGameOver(game)

MakeMoveEvents(events) == {i \in 1..Len(events) : events[i].event = "make_move"}

Marks(class) == {i \in 1..Len(boardElement) : class \in boardElement[i].marks}

(***************************************************************************)
(* C1  In every reachable state the selection cursor is non-null only if   *)
(* it names a square holding a piece of the local player's color and the   *)
(* side to move is the local player's color.                               *)
(***************************************************************************)
C1_SelectionIsFriendlyAndOnTurn ==
    selectedSquare # Null =>
        /\ playerColor # Null
        /\ Get(game, selectedSquare).color = ColorLetter(playerColor)
        /\ Turn(game) = ColorLetter(playerColor)

(***************************************************************************)
(* C2  A click that yields a move the rules engine accepts emits exactly   *)
(* one make_move event, carrying the page's game id, the notation of the   *)
(* move and the position string of the position after the move, and leaves *)
(* the selection null; no other step emits a make_move event.              *)
(***************************************************************************)
C2_AcceptedMoveEmitsOnce ==
    [][/\ \A square \in ClickSquares :
            Ran("click") /\ YieldsAcceptedMove(square) /\ ClickOn(square) =>
                /\ emitted' =
                     <<[event   |-> "make_move",
                        payload |-> [game_id |-> gameId,
                                     move    |-> San(game, selectedSquare, square),
                                     fen     |-> Fen(game')]]>>
                /\ Fen(game') = Fen(AfterMove(game, selectedSquare, square))
                /\ selectedSquare' = Null
       /\ MakeMoveEvents(emitted') # {} =>
            \E square \in ClickSquares : YieldsAcceptedMove(square) /\ ClickOn(square)
      ]_vars

C2_Witness ==
    /\ AfterClick("moved")
    /\ MakeMoveEvents(emitted) = {1}
    /\ selectedSquare = Null

(***************************************************************************)
(* C6  A click while no local color is assigned changes nothing: position, *)
(* selection, rendered board and texts stay as they were and no event is   *)
(* emitted.                                                                *)
(***************************************************************************)
C6_ClickWithoutColorIsNoOp ==
    [][\A square \in ClickSquares :
          Ran("click") /\ playerColor = Null /\ ClickOn(square) =>
              /\ UNCHANGED <<game, playerColor, selectedSquare, boardElement,
                             gameStatus, whiteStatus, blackStatus, movesList>>
              /\ emitted' = <<>>
      ]_vars

C6_Witness ==
    /\ playerColor = Null
    /\ AfterClick("ignored")
    /\ boardElement # <<>>
    /\ Turn(game) = "b"

(***************************************************************************)
(* C3  A locally accepted move leaves the move list showing the moves of   *)
(* the game so far followed by the new move, paired by move number: when   *)
(* the position after 1.e4 came from the server as a position string and   *)
(* black answers e7-e5, the list shows "1. e4 e5".                         *)
(***************************************************************************)
C3_MoveListAfterE4E5 ==
    (/\ AfterClick("moved")
     /\ Len(game.history) = 1
     /\ game.history[1].san = "e5"
     /\ Fen(game) = Fen(AfterMove(Load(AfterE4), "e7", "e5")))
    => movesList = <<"1. e4 e5">>

(***************************************************************************)
(* C4  After the click handler has processed a locally accepted move the   *)
(* status text matches the terminal predicates of the resulting position:  *)
(* the checkmate text in checkmate, the stalemate text in stalemate, the   *)
(* draw text in any other draw, and a side-to-move text only otherwise.    *)
(***************************************************************************)
C4_StatusMatchesTerminalPredicates ==
    AfterClick("moved") =>
        gameStatus =
            IF IsCheckmate(game)
            THEN (IF Turn(game) = "w" THEN BlackWinsText ELSE WhiteWinsText)
            ELSE IF IsStalemate(game) THEN StalemateText
            ELSE IF IsDraw(game) THEN DrawText
            ELSE IF Turn(game) = "w" THEN WhiteToMoveText ELSE BlackToMoveText

(***************************************************************************)
(* C5  The local position is the last authoritative position (the initial  *)
(* one or the last one loaded) with at most one locally accepted move      *)
(* applied to it.  The history the rules engine keeps is exactly the list  *)
(* of the moves made since the position was constructed or loaded.         *)
(***************************************************************************)
C5_AtMostOneSpeculativeMove == Len(game.history) <= 1

(***************************************************************************)
(* C7  With a square selected, a click on that same square leaves the      *)
(* selection null and the rendered board without selected or possible-move *)
(* marks, the position unchanged and nothing emitted, whatever pushes were *)
(* handled since the square was selected.                                  *)
(***************************************************************************)
C7_ReclickDeselects ==
    [][\A square \in ClickSquares :
          Ran("click") /\ selectedSquare = square /\ ClickOn(square) =>
              /\ selectedSquare' = Null
              /\ Marks("selected")' = {}
              /\ Marks("possible-move")' = {}
              /\ game' = game
              /\ emitted' = <<>>
      ]_vars

(***************************************************************************)
(* C8  Reading the rendered squares in append order: for white a8 comes    *)
(* first and h1 last, for black h1 comes first and a8 last, so the local   *)
(* player's own back rank is the last row.                                 *)
(***************************************************************************)
Layout(elements) == [i \in 1..Len(elements) |-> elements[i].square]

\* The board on the page was rendered for the color now assigned.
RenderedForColor ==
    /\ playerColor # Null
    /\ boardElement # <<>>
    /\ Layout(boardElement) = Layout(RenderBoard(Page).boardElement)

C8_BoardOrientation ==
    RenderedForColor =>
        LET layout == Layout(boardElement)
        IN  IF playerColor = "white"
            THEN layout[1] = "a8" /\ layout[64] = "h1"
            ELSE layout[1] = "h1" /\ layout[64] = "a8"

(***************************************************************************)
(* C9  The player_disconnected push sets the status text to the            *)
(* disconnected text and changes nothing else; no event is emitted.        *)
(***************************************************************************)
C9_DisconnectOnlySetsStatus ==
    [][Ran("player_disconnected") =>
          /\ gameStatus' = DisconnectedText
          /\ UNCHANGED <<game, playerColor, selectedSquare, boardElement,
                         whiteStatus, blackStatus, movesList>>
          /\ emitted' = <<>>
      ]_vars

C9_Witness ==
    /\ last.op = "player_disconnected"
    /\ gameStatus = DisconnectedText
    /\ selectedSquare # Null
    /\ Marks("possible-move") # {}

(***************************************************************************)
(* C10  As claimed: after a game_joined, move_made or player_disconnected  *)
(* push the rendered board is the projection of the current position,      *)
(* selection and color.                                                    *)
(* As amended: that holds after move_made and game_info; game_joined and   *)
(* player_disconnected leave the rendered board as it was.                 *)
(***************************************************************************)
BoardIsProjection == boardElement = RenderBoard(Page).boardElement

C11_ColorAssignedOnce ==
    [][playerColor # Null => playerColor' = playerColor]_vars

(***************************************************************************)
(* C12  A confirmed resign changes the status text to the resigned status  *)
(* (so to none of the labels of the other statuses, and not to the empty   *)
(* text), emits nothing and leaves position, selection and color as they   *)
(* were; a declined resign changes nothing.                                *)
(***************************************************************************)
ResignWith(confirmed) == Commit(OnResign(Page, confirmed), "resign")

C12_ResignShowsResignedStatus ==
    [][Ran("resign") =>
          /\ ResignWith(TRUE) =>
                /\ gameStatus' \notin {"", WaitingText, WhiteToMoveText, BlackToMoveText,
                                       BlackWinsText, WhiteWinsText, DrawText,
                                       StalemateText, DisconnectedText}
                /\ emitted' = <<>>
                /\ UNCHANGED <<game, selectedSquare, playerColor>>
          /\ ResignWith(FALSE) =>
                /\ UNCHANGED <<game, playerColor, selectedSquare, boardElement,
                               gameStatus, whiteStatus, blackStatus, movesList>>
                /\ emitted' = <<>>
      ]_vars

(***************************************************************************)
(* C13  Lobby: every create confirmation with identifier g makes the       *)
(* displayed link <origin>/game/g and schedules a navigation to that URL;  *)
(* the displayed link and the navigation target never differ: when a       *)
(* scheduled navigation runs, the location becomes the URL displayed as    *)
(* the link.                                                               *)
(***************************************************************************)
C13_NavigationFollowsLink ==
    [][/\ Ran("game_created") =>
            \E id \in GameIds :
                /\ gameLink' = Origin \o "/game/" \o id
                /\ timers' = Append(timers, gameLink')
       /\ Ran("timer") => location' = gameLink
      ]_vars

(***************************************************************************)
(* C14  After a move_made push the local position is the pushed position   *)
(* string, whatever was moved locally before, and the status text is       *)
(* judged against that position: the checkmate label in checkmate, the     *)
(* stalemate label in stalemate, the draw label in any other draw, and the *)
(* text it had before otherwise.                                           *)
(***************************************************************************)
MoveMadeWith(fen) == Commit(OnMoveMade(Page, [fen |-> fen]), "move_made")

C14_MoveMadeLoadsAndJudges ==
    [][\A fen \in PushFens :
          Ran("move_made") /\ MoveMadeWith(fen) =>
              LET pushed == Load(fen)
              IN  /\ Fen(game') = fen
                  /\ gameStatus' =
                        IF IsCheckmate(pushed)
                        THEN (IF Turn(pushed) = "w" THEN BlackWinsText ELSE WhiteWinsText)
                        ELSE IF IsStalemate(pushed) THEN StalemateText
                        ELSE IF IsDraw(pushed) THEN DrawText
                        ELSE gameStatus
      ]_vars

(***************************************************************************)
(* C15  A click while the side to move is not the local player's color, or *)
(* while the rules engine reports the game over, is a no-op: position and  *)
(* selection (even a stale non-null one) are unchanged, the board is not   *)
(* rendered again and no event is emitted.                                 *)
(***************************************************************************)
C15_ClickOffTurnOrOverIsNoOp ==
    [][Ran("click") /\ (~OnTurn \/ IsGameOver(game)) =>
          /\ UNCHANGED <<game, playerColor, selectedSquare, boardElement,
                         gameStatus, whiteStatus, blackStatus, movesList>>
          /\ emitted' = <<>>
      ]_vars

\* An ignored click of the player on turn in a finished game, with a stale selection.
C15_Witness ==
    /\ AfterClick("ignored")
    /\ OnTurn
    /\ selectedSquare # Null
    /\ boardElement # <<>>

(***************************************************************************)
(* C16  When a heeded click on Q with selection S set (Q # S) yields a     *)
(* move the rules engine rejects, the position is unchanged and nothing is *)
(* emitted; the selection becomes Q if Q holds a piece of the local        *)
(* player's color and null otherwise; the board is rendered again and,     *)
(* exactly when the new selection is non-null, its legal destinations are  *)
(* marked as possible moves.                                               *)
(***************************************************************************)
\* The click handler gets past its three early returns.
ClickHeeded == OnTurn /\ ~IsGameOver(game)

C16_RejectedMoveReselects ==
    /\ [][Ran("click") /\ selectedSquare # Null /\ ClickHeeded =>
            \A square \in ClickSquares :
                /\ selectedSquare # square
                /\ ~Legal(game, Cell[selectedSquare], Cell[square])
                /\ ClickOn(square)
                => /\ game' = game
                   /\ emitted' = <<>>
                   /\ selectedSquare' =
                         IF Get(game, square).color = ColorLetter(playerColor)
                         THEN square ELSE Null
                   /\ last'.branch = "rejected"
         ]_vars
    /\ [](AfterClick("rejected") =>
            /\ Marks("possible-move") =
                  IF selectedSquare = Null THEN {}
                  ELSE {i \in 1..64 :
                          boardElement[i].square \in Moves(game, selectedSquare)}
            /\ [i \in 1..64 |->
                  [boardElement[i] EXCEPT !.marks = @ \ {"possible-move"}]]
                 = RenderBoard(Page).boardElement)

\* A rejected move that reselected a friendly piece with somewhere to go.
C16_Witness ==
    /\ AfterClick("rejected")
    /\ selectedSquare # Null
    /\ Marks("possible-move") # {}
    /\ emitted = <<>>

(***************************************************************************)
(* C17  After every handler has returned: if the selection is non-null the *)
(* rendered board marks that square as selected and marks exactly the      *)
(* squares a legal move from it reaches in the current position as         *)
(* possible moves; if the selection is null no square carries a selected   *)
(* or possible-move mark.                                                  *)
(***************************************************************************)
C17_BoardShowsSelection ==
    last.op # "load" =>
        IF selectedSquare # Null
        THEN /\ Marks("selected") =
                  {i \in 1..Len(boardElement) : boardElement[i].square = selectedSquare}
             /\ Marks("selected") # {}
             /\ Marks("possible-move") =
                  {i \in 1..Len(boardElement) :
                      boardElement[i].square \in Moves(game, selectedSquare)}
        ELSE Marks("selected") = {} /\ Marks("possible-move") = {}

(***************************************************************************)
(* C18  A game_info push updates exactly the fields it carries: with a     *)
(* position string the position is replaced wholesale by it, otherwise it  *)
(* is unchanged; with a color the local color becomes that color,          *)
(* otherwise it is unchanged; without a status the status text is          *)
(* unchanged; in every case the board is rendered again, the selection is  *)
(* unchanged and nothing is emitted.  Stated of the page the handler       *)
(* leaves, for every payload, in every reachable state.                    *)
(***************************************************************************)
C18_GameInfoUpdatesWhatItCarries ==
    \A data \in GameInfoData :
        LET st == OnGameInfo(Page, data)
        IN  /\ st.game = IF "fen" \in DOMAIN data THEN Load(data.fen) ELSE game
            /\ st.playerColor =
                  IF "color" \in DOMAIN data THEN data.color ELSE playerColor
            /\ "status" \notin DOMAIN data => st.gameStatus = gameStatus
            /\ st.selectedSquare = selectedSquare
            /\ st.emitted = <<>>
            /\ st.boardElement = RenderBoard(st).boardElement

\* A game_info push handled with a selection in place and the board flipped.
C18_Witness ==
    /\ last.op = "game_info"
    /\ selectedSquare # Null
    /\ playerColor = "black"
    /\ Marks("selected") # {}
    /\ Marks("possible-move") = {}

(***************************************************************************)
(* C19  Every make_move event is emitted from a state in which the local   *)
(* color is assigned, the side to move is the local color and the game is  *)
(* not over, and the move it carries is legal in the local position at     *)
(* that moment.  After the emission the local player is not on turn, a     *)
(* click off turn emits nothing and leaves the player off turn, and only   *)
(* game_joined, game_info and move_made change the position or the color:  *)
(* no sequence of clicks alone emits two moves in a row.                   *)
(***************************************************************************)
C19_SingleWriterPerTurn ==
    /\ [][MakeMoveEvents(emitted') # {} =>
            /\ Ran("click")
            /\ ClickHeeded
            /\ \E square \in ClickSquares :
                  /\ YieldsAcceptedMove(square)
                  /\ emitted'[1].payload.move = San(game, selectedSquare, square)
         ]_vars
    /\ [](AfterClick("moved") => MakeMoveEvents(emitted) # {} /\ ~OnTurn)
    /\ [][Ran("click") /\ ~OnTurn =>
            /\ MakeMoveEvents(emitted') = {}
            /\ UNCHANGED <<game, playerColor>>
         ]_vars
    /\ [][Ran("player_joined") \/ Ran("player_disconnected") \/ Ran("resign") =>
            /\ MakeMoveEvents(emitted') = {}
            /\ UNCHANGED <<game, playerColor>>
         ]_vars

\* A move emitted by black in answer to a pushed position.
C19_Witness ==
    /\ AfterClick("moved")
    /\ playerColor = "black"
    /\ Turn(game) = "w"
    /\ Len(emitted) = 1
    /\ emitted[1].payload.move = "e5"

(***************************************************************************)
(* C20  After a locally accepted move, a move_made push, a game_info push  *)
(* or a player_joined push has been handled, a status text that is a       *)
(* side-to-move label names the side that is to move in the local          *)
(* position.                                                               *)
(***************************************************************************)
C20_StatusNamesSideToMove ==
    (AfterClick("moved") \/ last.op \in {"move_made", "game_info", "player_joined"}) =>
        /\ gameStatus = WhiteToMoveText => Turn(game) = "w"
        /\ gameStatus = BlackToMoveText => Turn(game) = "b"

====
